---- MODULE Spec2Model ----
(***************************************************************************)
(* Model of the Vestaboard message-matrix composer (src/main.py):          *)
(* Vestaboard.convert_text_to_codes, Vestaboard.create_gradient_background *)
(* and Vestaboard.create_message_matrix.                                   *)
(*                                                                         *)
(* Strings are sequences of one-character strings, so that str.upper,      *)
(* str.lower and str.split are computed and not assumed.  Python lists are *)
(* sequences; Python index i is index i+1 here.                            *)
(***************************************************************************)
EXTENDS Integers, Sequences, FiniteSets, TLC

VARIABLES message, color, justify, gradient,
          pc, err,
          start_code, end_code, gradient_matrix,
          background_matrix,
          words, wi, lines, current_line,
          justified_lines, message_matrix

vars == <<message, color, justify, gradient, pc, err,
          start_code, end_code, gradient_matrix, background_matrix,
          words, wi, lines, current_line, justified_lines, message_matrix>>

----------------------------------------------------------------------------
(* Program constants *)

ROWS == 6
COLS == 22

(* Python's None, used as the transparent marker of a justified line.  All  *)
(* display codes are non-negative, so -1 never collides with a code.        *)
None == -1

UpperLetters == <<"A","B","C","D","E","F","G","H","I","J","K","L","M",
                  "N","O","P","Q","R","S","T","U","V","W","X","Y","Z">>
LowerLetters == <<"a","b","c","d","e","f","g","h","i","j","k","l","m",
                  "n","o","p","q","r","s","t","u","v","w","x","y","z">>

(* str.upper() on one character *)
UpperChar(c) ==
    IF \E i \in 1..26 : LowerLetters[i] = c
    THEN UpperLetters[CHOOSE i \in 1..26 : LowerLetters[i] = c]
    ELSE c

(* str.lower() on one character and on a string *)
LowerChar(c) ==
    IF \E i \in 1..26 : UpperLetters[i] = c
    THEN LowerLetters[CHOOSE i \in 1..26 : UpperLetters[i] = c]
    ELSE c

Lower(s) == [i \in 1..Len(s) |-> LowerChar(s[i])]

(* The character table loaded from character_codes.json: letters A..Z have *)
(* the codes 1..26; every other character of the model's alphabet is       *)
(* absent from the table.                                                  *)
CHARACTER_CODES ==
    [ch \in {UpperLetters[i] : i \in 1..26} |->
        CHOOSE i \in 1..26 : UpperLetters[i] = ch]

COLOR_CODES ==
    (<<"r","e","d">> :> 63) @@
    (<<"o","r","a","n","g","e">> :> 64) @@
    (<<"y","e","l","l","o","w">> :> 65) @@
    (<<"g","r","e","e","n">> :> 66) @@
    (<<"b","l","u","e">> :> 67) @@
    (<<"v","i","o","l","e","t">> :> 68) @@
    (<<"w","h","i","t","e">> :> 69) @@
    (<<"b","l","a","c","k">> :> 70)

(* dict.get(key, default) *)
DictGet(d, key, default) == IF key \in DOMAIN d THEN d[key] ELSE default

(* [None] * n : the empty list when n <= 0 *)
NoneList(n) == [i \in 1..n |-> None]

(* int(x) for the rational x = num / den, den > 0: truncation toward zero *)
TruncDiv(num, den) ==
    IF num >= 0 THEN num \div den ELSE -((-num) \div den)

----------------------------------------------------------------------------
(* Vestaboard.convert_text_to_codes *)

CharCode(char) ==
    IF char # " " THEN DictGet(CHARACTER_CODES, UpperChar(char), 0) ELSE 0

convert_text_to_codes(text) == [i \in 1..Len(text) |-> CharCode(text[i])]

----------------------------------------------------------------------------
(* Vestaboard.create_gradient_background *)

GradientStartCode(start_color) == DictGet(COLOR_CODES, Lower(start_color), 70)
GradientEndCode(end_color) == DictGet(COLOR_CODES, Lower(end_color), 70)

(* the ratio taken over 6 * 22 cells instead of 6 * 22 - 1 *)
GradientCode_Mut(s, e, row, col) ==
    TruncDiv((ROWS * COLS) * s + (row * COLS + col) * (e - s), ROWS * COLS)

(* ratio = (row * 22 + col) / (6 * 22 - 1)                                  *)
(* code  = int(start_code + ratio * (end_code - start_code))                *)
(* row, col are the Python indexes (from 0).  The value before int() is the *)
(* rational (131*start + pos*(end-start)) / 131.  131 is prime and          *)
(* |end-start| <= 7, so this value is an integer only at pos = 0,           *)
(* pos = 131 or end = start, where the double arithmetic is exact, and is   *)
(* at least 1/131 away from an integer otherwise: int() of the double is    *)
(* int() of the rational.                                                   *)
GradientCode(s, e, row, col) ==
    TruncDiv((ROWS * COLS - 1) * s + (row * COLS + col) * (e - s),
             ROWS * COLS - 1)

GradientRow(s, e, row) == [c \in 1..COLS |-> GradientCode(s, e, row, c - 1)]

create_gradient_background(start_color, end_color) ==
    [r \in 1..ROWS |->
        GradientRow(GradientStartCode(start_color),
                    GradientEndCode(end_color), r - 1)]

----------------------------------------------------------------------------
(* Vestaboard.create_message_matrix: helpers *)

(* Optional arguments: [given |-> FALSE] is None *)
NoColor == [given |-> FALSE, name |-> <<>>]
SomeColor(n) == [given |-> TRUE, name |-> n]
NoGradient == [given |-> FALSE, start |-> <<>>, end |-> <<>>]
SomeGradient(s, e) == [given |-> TRUE, start |-> s, end |-> e]

(* "if color": None and the empty string are falsy *)
ColorTruthy(c) == c.given /\ c.name # <<>>

(* COLOR_CODES.get(color.lower(), 0) if color else 0 *)
DefaultFillCode(c) ==
    IF ColorTruthy(c) THEN DictGet(COLOR_CODES, Lower(c.name), 0) ELSE 0

SolidBackground(code) == [r \in 1..ROWS |-> [c \in 1..COLS |-> code]]

BackgroundMatrix(c, g) ==
    IF g.given
    THEN create_gradient_background(g.start, g.end)
    ELSE SolidBackground(DefaultFillCode(c))

(* message.split(): split on runs of whitespace, no empty words *)
RECURSIVE SplitFrom(_, _, _)
SplitFrom(s, i, cur) ==
    IF i > Len(s)
    THEN (IF cur = <<>> THEN <<>> ELSE <<cur>>)
    ELSE IF s[i] = " "
         THEN (IF cur = <<>> THEN <<>> ELSE <<cur>>) \o SplitFrom(s, i + 1, <<>>)
         ELSE SplitFrom(s, i + 1, Append(cur, s[i]))

Split(s) == SplitFrom(s, 1, <<>>)

(* an exclusive bound of 22 *)
WrapFits_Mut(line, word) ==
    Len(line) + Len(word) + (IF line # <<>> THEN 1 ELSE 0) < 22

(* len(current_line) + len(word) + (1 if current_line else 0) <= 22 *)
WrapFits(line, word) ==
    Len(line) + Len(word) + (IF line # <<>> THEN 1 ELSE 0) <= 22

(* current_line += (" " if current_line else "") + word *)
WrapAppend(line, word) ==
    line \o (IF line # <<>> THEN <<" ">> ELSE <<>>) \o word

(* lines[:6] *)
FirstSix(ls) == SubSeq(ls, 1, IF Len(ls) < 6 THEN Len(ls) ELSE 6)

(* center with the odd leftover cell on the left *)
JustifyLine_Mut(codes, j) ==
    IF j = "left" THEN codes \o NoneList(22 - Len(codes))
    ELSE IF j = "right" THEN NoneList(22 - Len(codes)) \o codes
    ELSE LET padding == (22 - Len(codes) + 1) \div 2
         IN  NoneList(padding) \o codes \o NoneList(22 - Len(codes) - padding)

(* the three branches of the justification of one line *)
JustifyLine(codes, j) ==
    IF j = "left" THEN codes \o NoneList(22 - Len(codes))
    ELSE IF j = "right" THEN NoneList(22 - Len(codes)) \o codes
    ELSE LET padding == (22 - Len(codes)) \div 2
         IN  NoneList(padding) \o codes \o NoneList(22 - Len(codes) - padding)

JustifyLines(ls, j) ==
    [i \in 1..Len(FirstSix(ls)) |-> JustifyLine(convert_text_to_codes(ls[i]), j)]

(* the odd leftover row at the top *)
TopPadding_Mut(n) == (6 - n + 1) \div 2

(* top_padding = (6 - len(justified_lines)) // 2 *)
TopPadding(n) == (6 - n) \div 2

(* [[None] * 22] * n *)
NoneRows(n) == [i \in 1..n |-> NoneList(22)]

VCenterLines(jl) ==
    NoneRows(TopPadding(Len(jl))) \o jl
        \o NoneRows(6 - Len(jl) - TopPadding(Len(jl)))

(* The overlay loop writes message_matrix[i][j] = code for every code that  *)
(* is not None, row by row and left to right.  The matrix has 6 rows of 22  *)
(* cells, so the first write at Python column j >= 22 or row i >= 6 raises  *)
(* IndexError.  ErrRow is the row (from 1) of that write, 0 if there is     *)
(* none.                                                                    *)
RowRaises(jl, r) ==
    \E c \in 1..Len(jl[r]) : jl[r][c] # None /\ (c > COLS \/ r > ROWS)

ErrRow(jl) ==
    IF \E r \in 1..Len(jl) : RowRaises(jl, r)
    THEN CHOOSE r \in 1..Len(jl) :
            RowRaises(jl, r) /\ \A q \in 1..(r - 1) : ~RowRaises(jl, q)
    ELSE 0

(* message_matrix when the loop ends or raises *)
Overlay(bg, jl) ==
    LET e == ErrRow(jl)
    IN  [r \in 1..ROWS |-> [c \in 1..COLS |->
            IF /\ r <= Len(jl)
               /\ (e = 0 \/ r <= e)
               /\ c <= Len(jl[r])
               /\ jl[r][c] # None
            THEN jl[r][c]
            ELSE bg[r][c]]]

----------------------------------------------------------------------------
(* Inputs *)

MaxHead == 2
MaxTail == 5

WordLens == {1, 10, 11, COLS + 1}

WordChars == <<"A", "b", "~">>

(* word number i of a message, n characters long *)
MkWord(i, n) == [j \in 1..n |-> WordChars[((i + j - 2) % 3) + 1]]

(* the whitespace before word i: one or two spaces *)
Gap(i) == IF i % 2 = 0 THEN <<" ">> ELSE <<" ", " ">>

RECURSIVE MkMessage(_, _)
MkMessage(lens, i) ==
    IF i > Len(lens) THEN <<>>
    ELSE (IF i > 1 THEN Gap(i) ELSE <<>>) \o MkWord(i, lens[i])
            \o MkMessage(lens, i + 1)

(* up to MaxHead arbitrary words, then up to MaxTail copies of one word *)
WordLenSeqs ==
    { h \o [i \in 1..r |-> l] :
        h \in UNION {[1..n -> WordLens] : n \in 0..MaxHead},
        r \in 0..MaxTail, l \in WordLens }

Messages == { MkMessage(ls, 1) : ls \in WordLenSeqs }

Red == <<"R","e","d">>
Black == <<"b","l","a","c","k">>
Yellow == <<"y","e","l","l","o","w">>
Chartreuse == <<"c","h","a","r","t","r","e","u","s","e">>

(* (color, gradient) pairs given to create_message_matrix *)
Backgrounds ==
    { <<NoColor, NoGradient>>,
      <<SomeColor(Red), NoGradient>>,
      <<SomeColor(Chartreuse), NoGradient>>,
      <<SomeColor(Red), SomeGradient(Red, Black)>>,
      <<NoColor, SomeGradient(Chartreuse, Yellow)>> }

Justifies == {"left", "right", "center"}

----------------------------------------------------------------------------
(* create_message_matrix as a pipeline *)

Init ==
    /\ message \in Messages
    /\ \E b \in Backgrounds : color = b[1] /\ gradient = b[2]
    /\ justify \in Justifies
    /\ pc = "background"
    /\ err = "none"
    /\ start_code = 0
    /\ end_code = 0
    /\ gradient_matrix = <<>>
    /\ background_matrix = <<>>
    /\ words = <<>>
    /\ wi = 1
    /\ lines = <<>>
    /\ current_line = <<>>
    /\ justified_lines = <<>>
    /\ message_matrix = <<>>

(* lines 105-115: the background, then the split of the message *)
Background ==
    /\ pc = "background"
    /\ background_matrix' = BackgroundMatrix(color, gradient)
    /\ start_code' = IF gradient.given THEN GradientStartCode(gradient.start) ELSE start_code
    /\ end_code' = IF gradient.given THEN GradientEndCode(gradient.end) ELSE end_code
    /\ words' = Split(message)
    /\ lines' = <<>>
    /\ current_line' = <<>>
    /\ wi' = 1
    /\ pc' = "wrap"
    /\ UNCHANGED <<message, color, justify, gradient, err, gradient_matrix,
                   justified_lines, message_matrix>>

(* lines 117-122: one iteration of the wrapping loop *)
WrapWord ==
    /\ pc = "wrap"
    /\ wi <= Len(words)
    /\ IF WrapFits(current_line, words[wi])
       THEN /\ current_line' = WrapAppend(current_line, words[wi])
            /\ lines' = lines
       ELSE /\ lines' = Append(lines, current_line)
            /\ current_line' = words[wi]
    /\ wi' = wi + 1
    /\ UNCHANGED <<message, color, justify, gradient, pc, err, start_code,
                   end_code, gradient_matrix, background_matrix, words,
                   justified_lines, message_matrix>>

(* lines 124-125: the last line *)
WrapFlush ==
    /\ pc = "wrap"
    /\ wi > Len(words)
    /\ lines' = IF current_line # <<>> THEN Append(lines, current_line) ELSE lines
    /\ pc' = "justify"
    /\ UNCHANGED <<message, color, justify, gradient, err, start_code,
                   end_code, gradient_matrix, background_matrix, words, wi,
                   current_line, justified_lines, message_matrix>>

(* lines 128-138 *)
Justify ==
    /\ pc = "justify"
    /\ justified_lines' = JustifyLines(lines, justify)
    /\ pc' = "vcenter"
    /\ UNCHANGED <<message, color, justify, gradient, err, start_code,
                   end_code, gradient_matrix, background_matrix, words, wi,
                   lines, current_line, message_matrix>>

(* lines 141-143 *)
VCenter ==
    /\ pc = "vcenter"
    /\ justified_lines' = IF justify = "center"
                          THEN VCenterLines(justified_lines)
                          ELSE justified_lines
    /\ pc' = "overlay"
    /\ UNCHANGED <<message, color, justify, gradient, err, start_code,
                   end_code, gradient_matrix, background_matrix, words, wi,
                   lines, current_line, message_matrix>>

(* lines 146-152: the overlay, which returns message_matrix or raises *)
OverlayAndReturn ==
    /\ pc = "overlay"
    /\ message_matrix' = Overlay(background_matrix, justified_lines)
    /\ err' = IF ErrRow(justified_lines) = 0 THEN "none" ELSE "IndexError"
    /\ pc' = "done"
    /\ UNCHANGED <<message, color, justify, gradient, start_code,
                   end_code, gradient_matrix, background_matrix, words, wi,
                   lines, current_line, justified_lines>>

Next ==
    \/ Background
    \/ WrapWord
    \/ WrapFlush
    \/ Justify
    \/ VCenter
    \/ OverlayAndReturn

Spec == Init /\ [][Next]_vars

----------------------------------------------------------------------------
(* create_gradient_background on its own, one row of the outer loop a step *)

ColorNames ==
    { Lower(Red), Red, Black, Yellow, Chartreuse,
      <<"o","r","a","n","g","e">>, <<"g","r","e","e","n">>,
      <<"B","L","U","E">>, <<"v","i","o","l","e","t">>,
      <<"w","h","i","t","e">> }

InitGradient ==
    /\ message = <<>>
    /\ color = NoColor
    /\ justify = "left"
    /\ \E s \in ColorNames, e \in ColorNames : gradient = SomeGradient(s, e)
    /\ pc = "gradient_call"
    /\ err = "none"
    /\ start_code = 0
    /\ end_code = 0
    /\ gradient_matrix = <<>>
    /\ background_matrix = <<>>
    /\ words = <<>>
    /\ wi = 1
    /\ lines = <<>>
    /\ current_line = <<>>
    /\ justified_lines = <<>>
    /\ message_matrix = <<>>

(* lines 86-89 *)
GradientEnter ==
    /\ pc = "gradient_call"
    /\ start_code' = GradientStartCode(gradient.start)
    /\ end_code' = GradientEndCode(gradient.end)
    /\ gradient_matrix' = <<>>
    /\ pc' = "gradient_loop"
    /\ UNCHANGED <<message, color, justify, gradient, err, background_matrix,
                   words, wi, lines, current_line, justified_lines,
                   message_matrix>>

(* lines 90-97: one iteration of "for row in range(6)" *)
GradientRowStep ==
    /\ pc = "gradient_loop"
    /\ Len(gradient_matrix) < ROWS
    /\ gradient_matrix' =
          Append(gradient_matrix,
                 GradientRow(start_code, end_code, Len(gradient_matrix)))
    /\ UNCHANGED <<message, color, justify, gradient, pc, err, start_code,
                   end_code, background_matrix, words, wi, lines,
                   current_line, justified_lines, message_matrix>>

(* line 99, and line 107 of the caller *)
GradientReturn ==
    /\ pc = "gradient_loop"
    /\ Len(gradient_matrix) = ROWS
    /\ background_matrix' = gradient_matrix
    /\ pc' = "gradient_returned"
    /\ UNCHANGED <<message, color, justify, gradient, err, start_code,
                   end_code, gradient_matrix, words, wi, lines, current_line,
                   justified_lines, message_matrix>>

NextGradient ==
    \/ GradientEnter
    \/ GradientRowStep
    \/ GradientReturn

SpecGradient == InitGradient /\ [][NextGradient]_vars

----------------------------------------------------------------------------
(* Vocabulary of the properties *)

AfterWrap == pc \in {"justify", "vcenter", "overlay", "done"}

AllWordsFit == \A i \in 1..Len(words) : Len(words[i]) <= COLS

(* number of retained lines, top row offset and left column offset *)
ClaimK == IF Len(lines) < ROWS THEN Len(lines) ELSE ROWS

ClaimTop == IF justify = "center" THEN (ROWS - ClaimK) \div 2 ELSE 0

ClaimLeft(n) ==
    IF justify = "left" THEN 0
    ELSE IF justify = "right" THEN COLS - n
    ELSE (COLS - n) \div 2

(* a row showing codes at columns [p, p+n) and other elsewhere *)
ClaimRow(codes, other) ==
    LET n == Len(codes)
        p == ClaimLeft(n)
    IN  [c \in 1..COLS |-> IF c > p /\ c <= p + n THEN codes[c - p] ELSE other[c]]

(* the overlay reached the end of row i of the text block *)
RowOverlaid(i) == \A q \in 1..i : Len(lines[q]) <= COLS

IsGrid(m) ==
    /\ Len(m) = ROWS
    /\ \A r \in 1..ROWS :
          /\ Len(m[r]) = COLS
          /\ \A c \in 1..COLS : m[r][c] \in Nat

----------------------------------------------------------------------------
(* C1: for every message, justify and color or gradient,                    *)
(* create_message_matrix returns a grid of exactly 6 rows of exactly 22     *)
(* cells, each a non-negative integer.                                      *)
C1_ReturnsGrid ==
    pc = "done" => err = "none" /\ IsGrid(message_matrix)

(* C2: a single word longer than 22 characters raises no error, occupies    *)
(* its own line, and only its first 22 characters are encoded into its row. *)
C2_LongWordTruncated ==
    pc = "done" =>
        \A i \in 1..ClaimK :
            Len(lines[i]) > COLS =>
                /\ err = "none"
                /\ \A c \in 1..Len(lines[i]) : lines[i][c] # " "
                /\ \A c \in 1..COLS :
                      message_matrix[ClaimTop + i][c]
                          = convert_text_to_codes(lines[i])[c]

(* C3: a space inside a wrapped line is transparent: the output cell at the *)
(* position of an inter-word space equals the background value of the cell. *)
C3_SpaceShowsBackground ==
    pc = "done" /\ err = "none" =>
        \A i \in 1..ClaimK :
            \A j \in 1..Len(lines[i]) :
                lines[i][j] = " " =>
                    message_matrix[ClaimTop + i][ClaimLeft(Len(lines[i])) + j]
                      = background_matrix[ClaimTop + i][ClaimLeft(Len(lines[i])) + j]

(* C4: a color name that is not in the color table resolves to 70 wherever  *)
(* a color is resolved (solid fill and both ends of a gradient); only an    *)
(* absent color gives a fill of 0.                                          *)
C4_UnknownColorIsBlack ==
    pc # "background" =>
        /\ (~gradient.given /\ color.given /\ Lower(color.name) \notin DOMAIN COLOR_CODES)
              => \A r \in 1..ROWS : \A c \in 1..COLS : background_matrix[r][c] = 70
        /\ (~gradient.given /\ ~color.given)
              => \A r \in 1..ROWS : \A c \in 1..COLS : background_matrix[r][c] = 0
        /\ (gradient.given /\ Lower(gradient.start) \notin DOMAIN COLOR_CODES)
              => start_code = 70
        /\ (gradient.given /\ Lower(gradient.end) \notin DOMAIN COLOR_CODES)
              => end_code = 70

(* C5: create_gradient_background sets cell (r, c) to                       *)
(* floor(start_code + (r*22 + c) * (end_code - start_code) / 131); cell     *)
(* (0,0) is start_code, cell (5,21) is end_code, and the values are         *)
(* non-decreasing in row-major order when end_code > start_code.            *)
C5_GradientFormula ==
    /\ \A r \in 1..Len(gradient_matrix) : \A c \in 1..COLS :
          gradient_matrix[r][c] =
              start_code + (((r - 1) * 22 + (c - 1)) * (end_code - start_code)) \div 131
    /\ pc = "gradient_returned" =>
          /\ background_matrix = gradient_matrix
          /\ background_matrix[1][1] = start_code
          /\ background_matrix[6][22] = end_code
          /\ end_code > start_code =>
                \A p \in 0..130 :
                    background_matrix[(p \div 22) + 1][(p % 22) + 1]
                       <= background_matrix[((p + 1) \div 22) + 1][((p + 1) % 22) + 1]

C5_Witness ==
    /\ pc = "gradient_returned"
    /\ gradient.start = Red
    /\ gradient.end = Black
    /\ background_matrix[1][1] = 63
    /\ background_matrix[6][22] = 70
    /\ background_matrix[3][11] = 65

(* C6: for a message whose words are each at most 22 characters, every      *)
(* wrapped line has at most 22 characters; a word is appended to the        *)
(* current line exactly when len(line) + len(word) + (1 if the line is      *)
(* non-empty) <= 22 and otherwise starts the next line; no line could have  *)
(* taken the first word of the line after it.                               *)
C6_State ==
    AllWordsFit =>
        /\ \A i \in 1..Len(lines) : Len(lines[i]) <= 22
        /\ Len(current_line) <= 22
        /\ AfterWrap =>
              /\ \A i \in 1..(Len(lines) - 1) :
                    Len(lines[i]) + 1 + Len(Split(lines[i + 1])[1]) > 22
              /\ \A i \in 1..Len(lines) :
                    \A j \in 1..(Len(lines[i]) - 1) :
                        ~(lines[i][j] = " " /\ lines[i][j + 1] = " ")

C6_Step ==
    (pc = "wrap" /\ wi <= Len(words) /\ AllWordsFit) =>
        LET w == words[wi]
            n == Len(current_line) + Len(w) + (IF Len(current_line) > 0 THEN 1 ELSE 0)
        IN  IF n <= 22
            THEN /\ lines' = lines
                 /\ current_line' =
                       IF Len(current_line) > 0 THEN current_line \o <<" ">> \o w ELSE w
            ELSE /\ lines' = lines \o <<current_line>>
                 /\ current_line' = w

C6_GreedyWrap == [](C6_State) /\ [][C6_Step]_vars

C6_Witness ==
    /\ AfterWrap
    /\ AllWordsFit
    /\ Len(words) >= 3
    /\ Len(lines) >= 2
    /\ Len(lines[1]) = 22
    /\ Len(Split(lines[1])) = 2
    /\ Split(lines[2])[1] = words[3]

(* C7: a line of n <= 22 codes is placed at columns [0, n) with left, at    *)
(* [22-n, 22) with right and at [p, p+n), p = floor((22-n)/2), with center  *)
(* (odd leftover cell on the right); every other cell of the row keeps its  *)
(* background value.                                                        *)
C7_HorizontalPlacement ==
    /\ pc = "vcenter" =>
          \A i \in 1..Len(justified_lines) :
              Len(lines[i]) <= COLS =>
                  justified_lines[i] =
                      ClaimRow(convert_text_to_codes(lines[i]), NoneList(COLS))
    /\ pc = "done" =>
          \A i \in 1..ClaimK :
              (Len(lines[i]) <= COLS /\ RowOverlaid(i)) =>
                  message_matrix[ClaimTop + i] =
                      ClaimRow(convert_text_to_codes(lines[i]),
                               background_matrix[ClaimTop + i])

C7_Witness ==
    /\ pc = "done"
    /\ err = "none"
    /\ justify = "center"
    /\ gradient.given
    /\ Len(lines) = 1
    /\ Len(lines[1]) = 1
    /\ message_matrix[3][11] = 1
    /\ \A c \in (1..10) \cup (12..22) :
          message_matrix[3][c] = background_matrix[3][c]

(* C8: k retained lines (0 <= k <= 6) occupy rows [t, t+k),                 *)
(* t = floor((6-k)/2), with center (odd leftover row at the bottom) and     *)
(* rows [0, k) with left or right; every row outside the text block equals  *)
(* the background row.                                                      *)
C8_VerticalPlacement ==
    /\ ClaimK \in 0..6
    /\ pc \in {"overlay", "done"} =>
          /\ Len(justified_lines) = IF justify = "center" THEN ROWS ELSE ClaimK
          /\ \A r \in 1..Len(justified_lines) :
                IF r > ClaimTop /\ r <= ClaimTop + ClaimK
                THEN justified_lines[r] =
                        JustifyLine(convert_text_to_codes(lines[r - ClaimTop]), justify)
                ELSE justified_lines[r] = NoneList(COLS)
    /\ pc = "done" =>
          /\ \A r \in 1..ROWS :
                (r <= ClaimTop \/ r > ClaimTop + ClaimK) =>
                    message_matrix[r] = background_matrix[r]
          /\ \A i \in 1..ClaimK :
                (Len(lines[i]) <= COLS /\ RowOverlaid(i)) =>
                    \A c \in 1..COLS :
                        LET x == justified_lines[ClaimTop + i][c]
                        IN  message_matrix[ClaimTop + i][c] =
                               IF x # None THEN x ELSE background_matrix[ClaimTop + i][c]

C8_Witness ==
    /\ pc = "done"
    /\ err = "none"
    /\ justify = "center"
    /\ Len(lines) = 2
    /\ message_matrix[3][6] = 1
    /\ message_matrix[4][6] = CharCode(words[2][1])
    /\ background_matrix[3][6] = 63
    /\ \A r \in {1, 2, 5, 6} : message_matrix[r] = background_matrix[r]

(* C9: when wrapping produces more than 6 lines, no error is raised and     *)
(* exactly the first 6 wrapped lines are displayed, in order, one per row.  *)
C9_FirstSixLinesDisplayed ==
    (pc = "done" /\ Len(lines) > 6) =>
        /\ err = "none"
        /\ \A i \in 1..6 :
              message_matrix[i] =
                  ClaimRow(convert_text_to_codes(lines[i]), background_matrix[i])

(* C10: word wrap never emits an empty line: each wrapped line contains at  *)
(* least one word, and the first word of the message is on the first line.  *)
C10_NoEmptyLine ==
    /\ \A i \in 1..Len(lines) : lines[i] # <<>>
    /\ (AfterWrap /\ Len(words) > 0) => Split(lines[1])[1] = words[1]

====
